---- MODULE Spec2Model ----
(***************************************************************************)
(* Toast notification manager of the Clipboard landing page                *)
(* (src/src/js/toast-manager.js, class ToastManager) together with the     *)
(* callers that give it a fixed id (ErrorHandler.showNetworkError /        *)
(* hideNetworkError, src/unnamed/part_000).                                *)
(*                                                                         *)
(* Time is counted in units of 300 ms, the length of the exit animation.   *)
(* The manager is constructed with options {maxToasts, defaultDuration}    *)
(* small enough to explore; animationDuration keeps its default.           *)
(* A toast object is named by the     *)
(* index of the show() call that created it; the closures the code         *)
(* registers (timers, click listeners) keep that object alive after it     *)
(* has left the toasts map, so the model keeps every object in `objs`.     *)
(* The JavaScript Map `toasts` is the sequence `toasts` of object indices, *)
(* in the Map's iteration order; the key of an entry is the object's id.   *)
(* The 'toast-show' CSS class and the progress bar only drive the          *)
(* animation and are left out; an element is attached (inDom) or not.      *)
(* pausedFor is a history field the claims read: the time an object has    *)
(* spent with its paused flag set.                                         *)
(***************************************************************************)
EXTENDS Integers, Sequences, FiniteSets, TLC

\* ---------------------------------------------------------------- bounds
MaxShows == 3          \* show() calls in one run
MaxTime == 3           \* the clock stops here (900 ms)
MaxGestures == 2       \* hover events, clicks, hide() and clearAll() calls by the page
InputShows == 2        \* show() calls in a run that varies every option
ActionShows == 1       \* show() calls in a run that varies the action buttons
MaxToggles == 3        \* theme toggles in one run
MaxNetEvents == 4      \* 'online' and 'offline' events in one run
MaxOverlayTimers == 2  \* removal timers of loading elements pending at once
LoadingTime == 4       \* the clock's last value in the loading scenario
MaxRetryCalls == 5     \* retryLastAction() calls for the one error
RetryTime == 6         \* the clock's last value in the retry scenario
MaxLoads == 3          \* page loads that share one localStorage
WelcomeTime == 31      \* the clock's last value in the page-load scenario
MaxSubmits == 2        \* 'submit' events in one run
FormTime == 18         \* the clock's last value in the form scenario

\* ------------------------------ constructor options the model is run with
maxToasts == 2          \* options.maxToasts (the default is 5)
defaultDuration == 2    \* options.defaultDuration, 600 ms (the default is 4000 ms)

\* ------------------------------------------------------ program constants
animationDuration == 1  \* options.animationDuration, 300 ms
defaultMaxToasts == 5   \* options.maxToasts when the constructor is given none
announceDuration == 7   \* duration: 2000 of the theme notification, in 300 ms units
maxRetries == 3         \* errorHandler.maxRetries
retryDelay == 3         \* delay(1000) of retryLastAction, in 300 ms units
welcomeDelay == 3       \* setTimeout(..., 1000) of showWelcomeMessage, in 300 ms units
welcomeDuration == 27   \* duration: 8000 of the welcome toast, in 300 ms units
feedbackDuration == 17  \* duration: 5000 of the form's success toast and of an error toast
apiDelayMin == 5        \* simulateApiCall(): delay(1500 + Math.random() * 1000),
apiDelayMax == 8        \* from 1500 ms to just under 2500 ms, in 300 ms units

\* ----------------------------------------------------------------- inputs
NoId == "none"                   \* options.id absent: generateId() is used
NetworkErrorId == "network-error"
CallerIds == {NetworkErrorId}
Undefined == <<>>                \* options.duration absent; <<d>> when it is d
Durations == {Undefined, <<0>>, <<2>>}  \* absent, 0 and 600 ms
SomeMessage == <<"Copied!">>     \* options.message present
Messages == {Undefined, SomeMessage}      \* options.message absent or present
AnyDurations == Durations \cup {<<-1>>}   \* and a negative duration, -300 ms
\* what the function action.action does: "none" when the action has no
\* function, "mark" for localStorage.setItem('clipboard-visited', 'true'),
\* "throw" for a function that throws
Effects == {"none", "mark", "throw"}
\* an entry of options.actions; dismiss is Undefined when absent
Actions == [effect : Effects, dismiss : {Undefined, <<FALSE>>}]
ActionLists == {<<a>> : a \in Actions} \cup {<<a, b>> : a, b \in Actions}

VARIABLES
    now,        \* Date.now(), in units of 300 ms
    objs,       \* the toast objects ever created by show(), by creation index
    toasts,     \* this.toasts: the Map, as object indices in iteration order
    timers,     \* pending setTimeout callbacks
    hovering,   \* the last hover event on the container was 'mouseenter'
    gestures,   \* hover events, clicks, hide() and clearAll() calls so far
    showEvents, \* number of 'toastShow' events dispatched
    hideEvents, \* per object, number of 'toastHide' events dispatched for it
    clearedAt,  \* <<t>> when clearAll() was called at t and no show() since, else <<>>
    visited,    \* localStorage has the item 'clipboard-visited'
    theme,        \* themeManager.theme
    dataTheme,    \* the data-theme attribute of document.documentElement
    storedTheme,  \* localStorage item 'clipboard-theme', Null when absent
    systemDark,   \* matchMedia('(prefers-color-scheme: dark)').matches
    storedAtLoad, \* what getStoredTheme() returned to the ThemeManager constructor
    toggled,      \* toggleTheme() has run since the page was loaded
    netLast,       \* the last of the window's 'online' and 'offline' events, "none" before any
    onlineAt,      \* when the last 'online' event arrived
    loadingStates, \* errorHandler.loadingStates: the keys of the Map
    overlays,      \* per key, the loading element of that key in the document
    retryAttempts, \* errorHandler.retryAttempts.get(error.id) || 0, for one error
    dispatched,    \* detail.attempt of the 'retryAction' events dispatched, in order
    loads,         \* page loads so far that share the localStorage
    welcomeLoads,  \* the loads on which the welcome toast was shown
    buttons,       \* per form, its submit button: disabled and textContent
    runs           \* the handleFormSubmission runs so far, in the order they started

themeVars == <<theme, dataTheme, storedTheme, systemDark, storedAtLoad, toggled>>

\* the error handler's and the application's state
netVars == <<netLast, onlineAt>>
loadVars == <<loadingStates, overlays>>
retryVars == <<retryAttempts, dispatched>>
pageVars == <<loads, welcomeLoads>>
formVars == <<buttons, runs>>
appVars == <<netVars, loadVars, retryVars, pageVars, formVars>>

\* the state outside the toast manager
others == <<visited, themeVars, appVars>>

vars == <<now, objs, toasts, timers, hovering, gestures, showEvents, hideEvents, clearedAt,
          others>>

\* ------------------------------------------------------------ ThemeManager
Null == "null"                   \* localStorage.getItem of an absent key
\* values localStorage may hold under 'clipboard-theme' when the page loads
StoredThemes == {Null, "light", "dark", "auto"}

\* getPreferredTheme()
getPreferredTheme(dark) == IF dark THEN "dark" ELSE "light"

\* an applyTheme that does not store the theme
applyThemeUnstored(th) ==
    /\ dataTheme' = th
    /\ theme' = th
    /\ UNCHANGED storedTheme

\* applyTheme(th): data-theme attribute, this.theme, localStorage item
applyTheme(th) ==
    /\ dataTheme' = th
    /\ theme' = th
    /\ storedTheme' = th

\* new ThemeManager() on a page whose localStorage holds stored and whose
\* system colour scheme is dark or not: this.theme = getStoredTheme() ||
\* getPreferredTheme(), then init() applies it
ThemeConstructed(stored, dark) ==
    LET th == IF stored = Null THEN getPreferredTheme(dark) ELSE stored
    IN  /\ theme = th
        /\ dataTheme = th
        /\ storedTheme = th
        /\ systemDark = dark
        /\ storedAtLoad = stored
        /\ toggled = FALSE

\* ------------------------------------------------------------ Map helpers
\* generateId(): 'toast-' + time + random, a string no caller supplies and
\* no other call generates
generateId(o) == ToString(o)

\* position of key id in the Map, 0 when absent
IndexOf(ts, os, id) ==
    IF \E i \in 1..Len(ts) : os[ts[i]].id = id
    THEN CHOOSE i \in 1..Len(ts) : os[ts[i]].id = id
    ELSE 0

\* this.toasts.get(id): the object stored under id, 0 for undefined
MapGet(ts, os, id) ==
    LET i == IndexOf(ts, os, id) IN IF i = 0 THEN 0 ELSE ts[i]

\* this.toasts.set(id, o): a key already present keeps its position
MapSet(ts, os, id, o) ==
    LET i == IndexOf(ts, os, id)
    IN  IF i = 0 THEN Append(ts, o) ELSE [ts EXCEPT ![i] = o]

\* a delete that leaves the Map as it is
MapDeleteNothing(ts, os, id) == ts

\* this.toasts.delete(id)
MapDelete(ts, os, id) ==
    LET i == IndexOf(ts, os, id)
    IN  IF i = 0 THEN ts
        ELSE SubSeq(ts, 1, i - 1) \o SubSeq(ts, i + 1, Len(ts))

\* ---------------------------------------------------------- timer helpers
\* setTimeout returns a handle that no pending timer and no toast.timer
\* field still names.  Handles are opaque to the code, so the model names
\* one by the kind of callback, the toast object the callback closes over
\* and a serial number.
NoTimer == <<"null", 0, 0>>
FreshHandle(tm, os, kind, o) ==
    LET used == {t.h : t \in tm} \cup {os[p].timer : p \in 1..Len(os)}
    IN  <<kind, o, CHOOSE n \in 1..(Cardinality(used) + 1) : <<kind, o, n>> \notin used>>

\* clearTimeout(h)
ClearTimeout(tm, h) == {t \in tm : t.h # h}

\* -------------------------------------------------------------------- Init
\* the toast manager after its constructor
ToastInit ==
    /\ now = 0
    /\ objs = <<>>
    /\ toasts = <<>>
    /\ timers = {}
    /\ hovering = FALSE
    /\ gestures = 0
    /\ showEvents = 0
    /\ hideEvents = <<>>
    /\ clearedAt = <<>>

\* the forms setupFormInteractions() binds a 'submit' listener to
Forms == {"newsletter", "contact"}
SubmitText == "Subscribe"            \* the textContent of a submit button in the page
ProcessingText == "Processing..."
InitialButtons == [f \in Forms |-> [disabled |-> FALSE, text |-> SubmitText]]

\* keys showLoading() and hideLoading() are called with
LoadingKeys == {"retry", "form-submit"}

\* the error handler after its constructor, the application after its first
\* load, no 'online' or 'offline' event yet
AppIdle ==
    /\ netLast = "none"
    /\ onlineAt = 0
    /\ loadingStates = {}
    /\ overlays = [k \in LoadingKeys |-> [attached |-> FALSE, active |-> FALSE, element |-> 0]]
    /\ retryAttempts = 0
    /\ dispatched = <<>>
    /\ loads = 1
    /\ welcomeLoads = {}
    /\ buttons = InitialButtons
    /\ runs = <<>>

\* nothing stored by the page, nothing pending outside the toast manager
OthersIdle ==
    /\ visited = FALSE
    /\ ThemeConstructed(Null, FALSE)
    /\ AppIdle

Init ==
    /\ ToastInit
    /\ OthersIdle

\* ------------------------------------------------------------------- hide
\* a hide that falls back on the oldest tracked toast when id is not a key
hideOldestIfUnknown(S, id) ==
    LET found == MapGet(S.toasts, S.objs, id)
        o == IF found = 0 /\ S.toasts # <<>> THEN S.toasts[1] ELSE found
    IN  IF o = 0 THEN S
        ELSE LET kept == IF S.objs[o].timer # NoTimer
                         THEN ClearTimeout(S.timers, S.objs[o].timer)
                         ELSE S.timers
                 exit == [h |-> FreshHandle(kept, S.objs, "exit", o),
                          kind |-> "exit", o |-> o, id |-> S.objs[o].id,
                          at |-> now + animationDuration]
             IN  [S EXCEPT !.timers = kept \cup {exit}]

\* hide(id) on the state S = [objs, toasts, timers]
hide(S, id) ==
    LET o == MapGet(S.toasts, S.objs, id)
    IN  IF o = 0 THEN S
        ELSE LET cleared == IF S.objs[o].timer # NoTimer
                            THEN ClearTimeout(S.timers, S.objs[o].timer)
                            ELSE S.timers
                 exit == [h |-> FreshHandle(cleared, S.objs, "exit", o),
                          kind |-> "exit", o |-> o, id |-> id,
                          at |-> now + animationDuration]
             IN  [S EXCEPT !.timers = cleared \cup {exit}]

\* one more hover event, click, hide() or clearAll() call by the page
Gesture ==
    /\ gestures < MaxGestures
    /\ gestures' = gestures + 1

Cur == [objs |-> objs, toasts |-> toasts, timers |-> timers]

Commit(S) ==
    /\ objs' = S.objs
    /\ toasts' = S.toasts
    /\ timers' = S.timers

\* ------------------------------------------------------------------- show
\* options.duration !== undefined ? options.duration : defaultDuration
ResolveDuration(d) == IF d = Undefined THEN defaultDuration ELSE d[1]

\* the object literal built at the top of show(); options.message is stored
\* as it was passed: Undefined when absent, <<text>> when it is text;
\* options.actions || [] is the sequence of actions, empty when absent
NewToast(id, d, msg, acts) ==
    [id |-> id, message |-> msg, duration |-> ResolveDuration(d), actions |-> acts,
     startTime |-> now, timer |-> NoTimer,
     paused |-> FALSE, inDom |-> FALSE, pausedFor |-> 0]

\* show(options) on the state S of a manager constructed with
\* options.maxToasts = limit: evict at the limit, append the element, set the
\* Map entry, schedule the auto-dismiss timer
show(S, limit, optId, optDur, optMsg, optActions) ==
    LET o == Len(S.objs) + 1
        id == IF optId = NoId THEN generateId(o) ELSE optId
        toast == NewToast(id, optDur, optMsg, optActions)
        atLimit == Len(S.toasts) >= limit
        oldestId == S.objs[S.toasts[1]].id
        S1 == IF atLimit THEN hide(S, oldestId) ELSE S
        objs2 == Append(S1.objs, [toast EXCEPT !.inDom = TRUE])
        toasts2 == MapSet(S1.toasts, objs2, id, o)
        h == FreshHandle(S1.timers, objs2, "auto", o)
        auto == [h |-> h, kind |-> "auto", o |-> o, id |-> id,
                 at |-> now + toast.duration]
    IN  IF toast.duration > 0
        THEN [objs |-> [objs2 EXCEPT ![o].timer = h], toasts |-> toasts2,
              timers |-> S1.timers \cup {auto}]
        ELSE [objs |-> objs2, toasts |-> toasts2, timers |-> S1.timers]

\* a show() call as a step of the page, for at most cap calls
ShowWith(limit, cap, optId, optDur, optMsg, optActions) ==
    /\ Len(objs) < cap
    /\ Commit(show(Cur, limit, optId, optDur, optMsg, optActions))
    /\ showEvents' = showEvents + 1
    /\ hideEvents' = Append(hideEvents, 0)
    /\ clearedAt' = <<>>
    /\ UNCHANGED <<now, hovering, gestures>>

\* show({message: 'Copied!', id: optId, duration: optDur})
Show(optId, optDur) ==
    /\ ShowWith(maxToasts, MaxShows, optId, optDur, SomeMessage, <<>>)
    /\ UNCHANGED others

\* --------------------------------------------------------- timer callbacks
\* the auto-dismiss callback () => this.hide(toast.id), set by show() and by
\* the mouseleave listener
AutoDismissFire(t) ==
    /\ t \in timers
    /\ t.kind = "auto"
    /\ t.at <= now
    /\ Commit(hide([Cur EXCEPT !.timers = timers \ {t}], objs[t.o].id))
    /\ UNCHANGED <<now, hovering, gestures, showEvents, hideEvents, clearedAt, others>>

\* the callback hide() registers: detach the captured toast's element,
\* delete the Map entry of the captured id, dispatch 'toastHide'
ExitFire(t) ==
    /\ t \in timers
    /\ t.kind = "exit"
    /\ t.at <= now
    /\ timers' = timers \ {t}
    /\ objs' = [objs EXCEPT ![t.o].inDom = FALSE]
    /\ toasts' = MapDelete(toasts, objs, t.id)
    /\ hideEvents' = [hideEvents EXCEPT ![t.o] = @ + 1]
    /\ UNCHANGED <<now, hovering, gestures, showEvents, clearedAt, others>>

\* 300 ms pass, up to the time limit; a timer that is due runs before the
\* clock moves on
TickUntil(limit) ==
    /\ now < limit
    /\ \A t \in timers : t.at > now
    /\ now' = now + 1
    /\ objs' = [o \in 1..Len(objs) |->
                  IF objs[o].paused
                  THEN [objs[o] EXCEPT !.pausedFor = @ + 1]
                  ELSE objs[o]]
    /\ UNCHANGED <<toasts, timers, hovering, gestures, showEvents, hideEvents, clearedAt, others>>

Tick == TickUntil(MaxTime)

\* ------------------------------------------------------------ hover events
\* a mouseenter that sets the paused flags and leaves the timers running
mouseenterKeepsTimers ==
    /\ objs' = [o \in 1..Len(objs) |->
                  IF (\E i \in 1..Len(toasts) : toasts[i] = o) /\ objs[o].timer # NoTimer
                  THEN [objs[o] EXCEPT !.paused = TRUE]
                  ELSE objs[o]]
    /\ hovering' = TRUE
    /\ UNCHANGED <<now, toasts, timers, showEvents, hideEvents, clearedAt, others>>

\* container 'mouseenter' listener
mouseenter ==
    /\ objs' = [o \in 1..Len(objs) |->
                  IF (\E i \in 1..Len(toasts) : toasts[i] = o) /\ objs[o].timer # NoTimer
                  THEN [objs[o] EXCEPT !.paused = TRUE]
                  ELSE objs[o]]
    /\ timers' = {t \in timers :
                    ~ \E i \in 1..Len(toasts) :
                         objs[toasts[i]].timer # NoTimer /\ objs[toasts[i]].timer = t.h}
    /\ hovering' = TRUE
    /\ UNCHANGED <<now, toasts, showEvents, hideEvents, clearedAt, others>>

\* the pointer enters the container, one more gesture of the page's user
MouseEnter ==
    /\ mouseenter
    /\ Gesture

\* a mouseleave that restarts every paused timer with the whole duration
RECURSIVE ResumeFull(_, _)
ResumeFull(S, i) ==
    IF i > Len(S.toasts) THEN S
    ELSE LET o == S.toasts[i]
             toast == S.objs[o]
             h == FreshHandle(S.timers, S.objs, "auto", o)
             auto == [h |-> h, kind |-> "auto", o |-> o, id |-> toast.id,
                      at |-> now + toast.duration]
         IN  IF toast.paused /\ toast.duration > 0
             THEN ResumeFull([S EXCEPT !.timers = @ \cup {auto},
                                       !.objs[o].timer = h,
                                       !.objs[o].paused = FALSE], i + 1)
             ELSE ResumeFull(S, i + 1)

\* body of the 'mouseleave' forEach for the toasts from position i on
RECURSIVE Resume(_, _)
Resume(S, i) ==
    IF i > Len(S.toasts) THEN S
    ELSE LET o == S.toasts[i]
             toast == S.objs[o]
             remainingTime == toast.duration - (now - toast.startTime)
             h == FreshHandle(S.timers, S.objs, "auto", o)
             auto == [h |-> h, kind |-> "auto", o |-> o, id |-> toast.id,
                      at |-> now + remainingTime]
         IN  IF toast.paused /\ toast.duration > 0 /\ remainingTime > 0
             THEN Resume([S EXCEPT !.timers = @ \cup {auto},
                                   !.objs[o].timer = h,
                                   !.objs[o].paused = FALSE], i + 1)
             ELSE Resume(S, i + 1)

\* container 'mouseleave' listener
mouseleave ==
    /\ Commit(Resume(Cur, 1))
    /\ hovering' = FALSE
    /\ UNCHANGED <<now, showEvents, hideEvents, clearedAt, others>>

\* the pointer leaves the container, one more gesture of the page's user
MouseLeave ==
    /\ mouseleave
    /\ Gesture

\* --------------------------------------------------------- dismiss triggers
\* ids a caller can pass to hide(): the fixed ids and the ids show() returned
KnownIds == CallerIds \cup {objs[o].id : o \in 1..Len(objs)}

\* window.toast.hide(id) / toastManager.hide(id) called by page code
Dismiss(id) ==
    /\ id \in KnownIds
    /\ Commit(hide(Cur, id))
    /\ Gesture
    /\ UNCHANGED <<now, hovering, showEvents, hideEvents, clearedAt, others>>

\* click on the close button of the element of toast object o
CloseClick(o) ==
    /\ o \in 1..Len(objs)
    /\ objs[o].inDom
    /\ Commit(hide(Cur, objs[o].id))
    /\ Gesture
    /\ UNCHANGED <<now, hovering, showEvents, hideEvents, clearedAt, others>>

\* body of the clearAll forEach for the toasts from position i on
RECURSIVE HideFrom(_, _)
HideFrom(S, i) ==
    IF i > Len(toasts) THEN S
    ELSE HideFrom(hide(S, objs[toasts[i]].id), i + 1)

\* clearAll()
ClearAll ==
    /\ Commit(HideFrom(Cur, 1))
    /\ Gesture
    /\ clearedAt' = <<now>>
    /\ UNCHANGED <<now, hovering, showEvents, hideEvents, others>>

\* --------------------------------------------------------------------- Next
Next ==
    \/ \E optId \in {NoId} \cup CallerIds, optDur \in Durations : Show(optId, optDur)
    \/ \E t \in timers : AutoDismissFire(t)
    \/ \E t \in timers : ExitFire(t)
    \/ Tick
    \/ MouseEnter
    \/ MouseLeave
    \/ \E id \in KnownIds : Dismiss(id)
    \/ \E o \in 1..Len(objs) : CloseClick(o)
    \/ ClearAll

Spec == Init /\ [][Next]_vars

\* ------------------------------------------- the default-capacity scenario
\* window.toastManager = new ToastManager(): maxToasts is 5.  The page shows
\* six toasts with generated ids and does nothing else; timers run.
ShowDefault(optDur) ==
    /\ ShowWith(defaultMaxToasts, defaultMaxToasts + 1, NoId, optDur, SomeMessage, <<>>)
    /\ UNCHANGED others

NextSix ==
    \/ \E optDur \in Durations : ShowDefault(optDur)
    \/ \E t \in timers : AutoDismissFire(t)
    \/ \E t \in timers : ExitFire(t)
    \/ Tick

SpecSix == Init /\ [][NextSix]_vars

\* ---------------------------------------------------------- action buttons
\* show({message, duration: optDur, actions: acts})
ShowActions(optDur, acts) ==
    /\ ShowWith(maxToasts, ActionShows, NoId, optDur, SomeMessage, acts)
    /\ UNCHANGED others

\* click on the i-th action button of the element of toast object o: run
\* action.action(toast) when there is one, then hide(toast.id) unless
\* action.dismiss is false; an exception of action.action ends the listener
ActionClick(o, i) ==
    /\ o \in 1..Len(objs)
    /\ objs[o].inDom
    /\ i \in 1..Len(objs[o].actions)
    /\ LET action == objs[o].actions[i]
       IN  IF action.effect = "throw"
           THEN UNCHANGED <<objs, toasts, timers, visited>>
           ELSE /\ visited' = IF action.effect = "mark" THEN TRUE ELSE visited
                /\ IF action.dismiss # <<FALSE>>
                   THEN Commit(hide(Cur, objs[o].id))
                   ELSE UNCHANGED <<objs, toasts, timers>>
    /\ Gesture
    /\ UNCHANGED <<now, hovering, showEvents, hideEvents, clearedAt, themeVars, appVars>>

NextActions ==
    \/ \E optDur \in Durations, acts \in ActionLists : ShowActions(optDur, acts)
    \/ \E o \in 1..Len(objs) : \E i \in 1..Len(objs[o].actions) : ActionClick(o, i)
    \/ \E t \in timers : AutoDismissFire(t)
    \/ \E t \in timers : ExitFire(t)
    \/ Tick

SpecActions == Init /\ [][NextActions]_vars

\* ------------------------------------------------ any number of hover events
\* show({message, id: optId, duration: optDur})
ShowHover(optId, optDur) ==
    /\ ShowWith(maxToasts, InputShows, optId, optDur, SomeMessage, <<>>)
    /\ UNCHANGED others

NextHover ==
    \/ \E optId \in {NoId} \cup CallerIds, optDur \in Durations : ShowHover(optId, optDur)
    \/ mouseenter /\ UNCHANGED gestures
    \/ mouseleave /\ UNCHANGED gestures
    \/ \E t \in timers : AutoDismissFire(t)
    \/ \E t \in timers : ExitFire(t)
    \/ Tick

SpecHover == Init /\ [][NextHover]_vars

\* ------------------------------------------------------------ theme changes
\* the message of the notification for a change to theme th
ThemeMessage(th) == <<"Switched to", th, "mode">>

\* a themeChanged listener that shows nothing
themeChangedSilent(th) ==
    UNCHANGED <<objs, toasts, timers, showEvents, hideEvents, clearedAt, now, hovering, gestures>>

\* the application's 'themeChanged' listener:
\* toastManager.info(`Switched to ${e.detail.theme} mode`, {duration: 2000})
themeChanged(th) ==
    ShowWith(defaultMaxToasts, MaxToggles, NoId, <<announceDuration>>, ThemeMessage(th), <<>>)

\* toggleTheme(), by a click on the toggle or by Ctrl/Cmd+Shift+D
ToggleTheme ==
    LET newTheme == IF theme = "light" THEN "dark" ELSE "light"
    IN  /\ applyTheme(newTheme)
        /\ toggled' = TRUE
        /\ themeChanged(newTheme)
        /\ UNCHANGED <<visited, systemDark, storedAtLoad, appVars>>

\* the system colour scheme changes; the 'change' listener of bindEvents
SystemChange ==
    /\ systemDark' = ~systemDark
    /\ IF storedTheme = Null
       THEN applyTheme(getPreferredTheme(systemDark'))
       ELSE UNCHANGED <<theme, dataTheme, storedTheme>>
    /\ UNCHANGED <<now, objs, toasts, timers, hovering, gestures, showEvents, hideEvents,
                   clearedAt, visited, storedAtLoad, toggled, appVars>>

\* applyTheme('light') or applyTheme('dark') called by page code
ApplyTheme(th) ==
    /\ applyTheme(th)
    /\ UNCHANGED <<now, objs, toasts, timers, hovering, gestures, showEvents, hideEvents,
                   clearedAt, visited, systemDark, storedAtLoad, toggled, appVars>>

\* the page as loaded: toast manager and theme manager constructed
InitTheme ==
    /\ ToastInit
    /\ visited = FALSE
    /\ AppIdle
    /\ \E stored \in StoredThemes, dark \in BOOLEAN : ThemeConstructed(stored, dark)

NextTheme ==
    \/ ToggleTheme
    \/ SystemChange
    \/ \E th \in {"light", "dark"} : ApplyTheme(th)

SpecTheme == InitTheme /\ [][NextTheme]_vars

\* -------------------------------------------------- online and offline
OfflineMessage == <<"You are offline. Some features may not work.">>
OnlineMessage == <<"You are back online!">>

\* the window's 'offline' event: showNetworkError()
Offline ==
    /\ ShowWith(defaultMaxToasts, MaxNetEvents, NetworkErrorId, <<0>>, OfflineMessage, <<>>)
    /\ netLast' = "offline"
    /\ UNCHANGED <<onlineAt, visited, themeVars, loadVars, retryVars, pageVars, formVars>>

\* the window's 'online' event: hideNetworkError(), that is
\* hide('network-error') and then show({message: 'You are back online!'})
Online ==
    /\ Len(objs) < MaxNetEvents
    /\ Commit(show(hide(Cur, NetworkErrorId), defaultMaxToasts, NoId, Undefined,
                   OnlineMessage, <<>>))
    /\ showEvents' = showEvents + 1
    /\ hideEvents' = Append(hideEvents, 0)
    /\ clearedAt' = <<>>
    /\ netLast' = "online"
    /\ onlineAt' = now
    /\ UNCHANGED <<now, hovering, gestures, visited, themeVars, loadVars, retryVars, pageVars, formVars>>

NextNetwork ==
    \/ Offline
    \/ Online
    \/ \E t \in timers : AutoDismissFire(t)
    \/ \E t \in timers : ExitFire(t)
    \/ Tick

SpecNetwork == Init /\ [][NextNetwork]_vars

\* ------------------------------------------------------- loading states
Loading == [loadingStates |-> loadingStates, overlays |-> overlays, timers |-> timers]

\* showLoading(key) on L = [loadingStates, overlays, timers]: set the Map
\* entry, create and append the element if the document has none for the
\* key, add the class 'active'
showLoading(L, key) ==
    [L EXCEPT !.loadingStates = @ \cup {key},
              !.overlays[key] = IF @.attached
                                THEN [@ EXCEPT !.active = TRUE]
                                ELSE [attached |-> TRUE, active |-> TRUE,
                                      element |-> @.element + 1]]

\* hideLoading(key): delete the Map entry; if the document has an element
\* for the key, remove the class 'active' and schedule its removal
hideLoading(L, key) ==
    LET el == L.overlays[key]
        removal == [h |-> FreshHandle(L.timers, objs, "overlay", el.element),
                    kind |-> "overlay", o |-> el.element, id |-> key,
                    at |-> now + animationDuration]
    IN  IF el.attached
        THEN [L EXCEPT !.loadingStates = @ \ {key},
                       !.overlays[key].active = FALSE,
                       !.timers = @ \cup {removal}]
        ELSE [L EXCEPT !.loadingStates = @ \ {key}]

CommitLoading(L) ==
    /\ loadingStates' = L.loadingStates
    /\ overlays' = L.overlays
    /\ timers' = L.timers

\* the page calls errorHandler.showLoading(key)
ShowLoading(key) ==
    /\ CommitLoading(showLoading(Loading, key))
    /\ UNCHANGED <<now, objs, toasts, hovering, gestures, showEvents, hideEvents, clearedAt,
                   visited, themeVars, netVars, retryVars, pageVars, formVars>>

\* the page calls errorHandler.hideLoading(key)
HideLoading(key) ==
    /\ Cardinality({t \in timers : t.kind = "overlay"}) < MaxOverlayTimers
    /\ CommitLoading(hideLoading(Loading, key))
    /\ UNCHANGED <<now, objs, toasts, hovering, gestures, showEvents, hideEvents, clearedAt,
                   visited, themeVars, netVars, retryVars, pageVars, formVars>>

\* the callback hideLoading() registers: remove the captured element from
\* its parent if it has one
OverlayFire(t) ==
    /\ t \in timers
    /\ t.kind = "overlay"
    /\ t.at <= now
    /\ timers' = timers \ {t}
    /\ overlays' = IF overlays[t.id].attached /\ overlays[t.id].element = t.o
                   THEN [overlays EXCEPT ![t.id].attached = FALSE]
                   ELSE overlays
    /\ UNCHANGED <<now, objs, toasts, hovering, gestures, showEvents, hideEvents, clearedAt,
                   visited, themeVars, netVars, loadingStates, retryVars, pageVars, formVars>>

\* isLoading(key)
isLoading(key) == key \in loadingStates

NextLoading ==
    \/ \E key \in LoadingKeys : ShowLoading(key)
    \/ \E key \in LoadingKeys : HideLoading(key)
    \/ \E t \in timers : OverlayFire(t)
    \/ TickUntil(LoadingTime)

SpecLoading == Init /\ [][NextLoading]_vars

\* ------------------------------------------------------------ retries
MaxRetriesMessage == <<"Maximum retry attempts reached. Please refresh the page.">>
RetriedMessage == <<"Action retried successfully">>
\* the 'Refresh' button of the max-retries toast
RefreshActions == <<[effect |-> "none", dismiss |-> Undefined]>>

\* retryLastAction() calls made so far: those that counted an attempt and
\* those that showed the max-retries toast
RetryCalls ==
    retryAttempts + Cardinality({o \in 1..Len(objs) : objs[o].message = MaxRetriesMessage})

\* a retryLastAction that lets one more attempt through
retryLastActionOneMore ==
    /\ RetryCalls < MaxRetryCalls
    /\ IF retryAttempts > maxRetries
       THEN /\ Commit(show(Cur, defaultMaxToasts, NoId, <<0>>, MaxRetriesMessage,
                           RefreshActions))
            /\ showEvents' = showEvents + 1
            /\ hideEvents' = Append(hideEvents, 0)
            /\ clearedAt' = <<>>
            /\ UNCHANGED <<retryAttempts, loadVars>>
       ELSE LET L == showLoading(Loading, "retry")
                wait == [h |-> FreshHandle(timers, objs, "retry", retryAttempts + 1),
                         kind |-> "retry", o |-> retryAttempts + 1, id |-> "retry",
                         at |-> now + retryDelay]
            IN  /\ retryAttempts' = retryAttempts + 1
                /\ CommitLoading([L EXCEPT !.timers = @ \cup {wait}])
                /\ UNCHANGED <<objs, toasts, showEvents, hideEvents, clearedAt>>
    /\ UNCHANGED <<now, hovering, gestures, dispatched, visited, themeVars, netVars, pageVars, formVars>>

\* retryLastAction(error) up to its await: at maxRetries attempts show the
\* max-retries toast and return; else count the attempt, showLoading('retry')
\* and start delay(1000)
retryLastAction ==
    /\ RetryCalls < MaxRetryCalls
    /\ IF retryAttempts >= maxRetries
       THEN /\ Commit(show(Cur, defaultMaxToasts, NoId, <<0>>, MaxRetriesMessage,
                           RefreshActions))
            /\ showEvents' = showEvents + 1
            /\ hideEvents' = Append(hideEvents, 0)
            /\ clearedAt' = <<>>
            /\ UNCHANGED <<retryAttempts, loadVars>>
       ELSE LET L == showLoading(Loading, "retry")
                wait == [h |-> FreshHandle(timers, objs, "retry", retryAttempts + 1),
                         kind |-> "retry", o |-> retryAttempts + 1, id |-> "retry",
                         at |-> now + retryDelay]
            IN  /\ retryAttempts' = retryAttempts + 1
                /\ CommitLoading([L EXCEPT !.timers = @ \cup {wait}])
                /\ UNCHANGED <<objs, toasts, showEvents, hideEvents, clearedAt>>
    /\ UNCHANGED <<now, hovering, gestures, dispatched, visited, themeVars, netVars, pageVars, formVars>>

\* retryLastAction(error) after its await, for the call that counted
\* attempt t.o: dispatch 'retryAction', hideLoading('retry'), show the
\* success toast; timers of equal delay run in the order they were set
RetryResume(t) ==
    /\ t \in timers
    /\ t.kind = "retry"
    /\ t.at <= now
    /\ \A u \in timers : u.kind = "retry" => u.o >= t.o
    /\ dispatched' = Append(dispatched, t.o)
    /\ LET L == hideLoading([Loading EXCEPT !.timers = @ \ {t}], "retry")
           S == show([objs |-> objs, toasts |-> toasts, timers |-> L.timers],
                     defaultMaxToasts, NoId, Undefined, RetriedMessage, <<>>)
       IN  /\ loadingStates' = L.loadingStates
           /\ overlays' = L.overlays
           /\ Commit(S)
    /\ showEvents' = showEvents + 1
    /\ hideEvents' = Append(hideEvents, 0)
    /\ clearedAt' = <<>>
    /\ UNCHANGED <<now, hovering, gestures, retryAttempts, visited, themeVars, netVars, pageVars, formVars>>

NextRetry ==
    \/ retryLastAction
    \/ \E t \in timers : RetryResume(t)
    \/ \E t \in timers : OverlayFire(t)
    \/ \E t \in timers : AutoDismissFire(t)
    \/ \E t \in timers : ExitFire(t)
    \/ TickUntil(RetryTime)

SpecRetry == Init /\ [][NextRetry]_vars

\* ------------------------------------------------------------ page loads
WelcomeMessage == <<"Welcome to Clipboard!">>
\* the 'Got it!' button: its action sets the item 'clipboard-visited'
WelcomeActions == <<[effect |-> "mark", dismiss |-> Undefined]>>

\* the timers of a page after ClipboardApp.init(): showWelcomeMessage() has
\* started its timeout unless localStorage has 'clipboard-visited'
WelcomeTimers(v) ==
    IF v THEN {}
    ELSE {[h |-> <<"welcome", 0, 1>>, kind |-> "welcome", o |-> 0, id |-> "welcome",
           at |-> now + welcomeDelay]}

\* the first load of the page, by a new or by a returning visitor
InitWelcome ==
    /\ now = 0
    /\ objs = <<>>
    /\ toasts = <<>>
    /\ \E v \in BOOLEAN : visited = v /\ timers = WelcomeTimers(v)
    /\ hovering = FALSE
    /\ gestures = 0
    /\ showEvents = 0
    /\ hideEvents = <<>>
    /\ clearedAt = <<>>
    /\ ThemeConstructed(Null, FALSE)
    /\ AppIdle

\* the page is loaded again: the managers and the application are
\* constructed anew, the timers of the old page are gone, localStorage stays
PageLoad ==
    /\ loads < MaxLoads
    /\ loads' = loads + 1
    /\ objs' = <<>>
    /\ toasts' = <<>>
    /\ timers' = WelcomeTimers(visited)
    /\ hovering' = FALSE
    /\ showEvents' = 0
    /\ hideEvents' = <<>>
    /\ clearedAt' = <<>>
    /\ applyTheme(IF storedTheme = Null THEN getPreferredTheme(systemDark) ELSE storedTheme)
    /\ storedAtLoad' = storedTheme
    /\ toggled' = FALSE
    /\ netLast' = "none"
    /\ onlineAt' = 0
    /\ loadingStates' = {}
    /\ overlays' = [k \in LoadingKeys |-> [attached |-> FALSE, active |-> FALSE, element |-> 0]]
    /\ retryAttempts' = 0
    /\ dispatched' = <<>>
    /\ buttons' = InitialButtons
    /\ runs' = <<>>
    /\ UNCHANGED <<now, gestures, visited, systemDark, welcomeLoads>>

\* the callback showWelcomeMessage() registers: toastManager.info(welcome
\* text, {title, duration: 8000, actions: [Got it!]})
WelcomeFire(t) ==
    /\ t \in timers
    /\ t.kind = "welcome"
    /\ t.at <= now
    /\ Commit(show([Cur EXCEPT !.timers = @ \ {t}], defaultMaxToasts, NoId,
                   <<welcomeDuration>>, WelcomeMessage, WelcomeActions))
    /\ showEvents' = showEvents + 1
    /\ hideEvents' = Append(hideEvents, 0)
    /\ clearedAt' = <<>>
    /\ welcomeLoads' = welcomeLoads \cup {loads}
    /\ UNCHANGED <<now, hovering, gestures, visited, themeVars, netVars, loadVars, retryVars,
                   loads, formVars>>

NextWelcome ==
    \/ PageLoad
    \/ \E t \in timers : WelcomeFire(t)
    \/ \E o \in 1..Len(objs) : \E i \in 1..Len(objs[o].actions) : ActionClick(o, i)
    \/ \E o \in 1..Len(objs) : CloseClick(o)
    \/ \E t \in timers : AutoDismissFire(t)
    \/ \E t \in timers : ExitFire(t)
    \/ TickUntil(WelcomeTime)

SpecWelcome == InitWelcome /\ [][NextWelcome]_vars

\* ------------------------------------------------------ form submission
\* getUserFriendlyMessage() of an error of type 'form': the default message
FormErrorMessage == <<"Something went wrong. Please try again.">>
FormSuccessMessage == <<"Thank you! We'll be in touch soon.">>
\* the 'Retry' and 'Report' buttons of an error toast
ErrorActions == <<[effect |-> "retry", dismiss |-> Undefined],
                  [effect |-> "report", dismiss |-> Undefined]>>
ApiDelays == apiDelayMin..apiDelayMax

\* the finally block of handleFormSubmission for run r of form f, after
\* the toast manager state S and with the loading state L: hideLoading,
\* re-enable the button and set its text to the text read at the start;
\* the run's record keeps what it left behind
FinishRun(r, run, S, L, succeeded) ==
    LET L2 == hideLoading([L EXCEPT !.timers = S.timers], "form-submit")
        button == [disabled |-> FALSE, text |-> run.originalText]
    IN  /\ objs' = S.objs
        /\ toasts' = S.toasts
        /\ CommitLoading(L2)
        /\ buttons' = [buttons EXCEPT ![run.form] = button]
        /\ runs' = [i \in 1..(IF r > Len(runs) THEN r ELSE Len(runs)) |->
                      IF i = r
                      THEN [run EXCEPT !.done = TRUE,
                                       !.endLoading = "form-submit" \in L2.loadingStates,
                                       !.endDisabled = button.disabled,
                                       !.endText = button.text,
                                       !.success = succeeded,
                                       !.handled = ~succeeded]
                      ELSE runs[i]]
        /\ showEvents' = showEvents + 1
        /\ hideEvents' = Append(hideEvents, 0)
        /\ clearedAt' = <<>>

\* a 'submit' event of form f: handleFormSubmission(form) up to its await.
\* With invalid input the run throws, handleError() shows the error toast
\* and the finally block runs, all in this step; with valid input the run
\* waits for simulateApiCall(), d units
Submit(f, valid, d) ==
    /\ Len(runs) < MaxSubmits
    /\ now + d <= FormTime
    /\ LET r == Len(runs) + 1
           run == [form |-> f, originalText |-> buttons[f].text, valid |-> valid,
                   done |-> FALSE, endLoading |-> FALSE, endDisabled |-> FALSE,
                   endText |-> "", success |-> FALSE, handled |-> FALSE]
           L == showLoading(Loading, "form-submit")
           wait == [h |-> FreshHandle(timers, objs, "submit", r),
                    kind |-> "submit", o |-> r, id |-> f, at |-> now + d]
       IN  IF valid
           THEN /\ CommitLoading([L EXCEPT !.timers = @ \cup {wait}])
                /\ buttons' = [buttons EXCEPT ![f] = [disabled |-> TRUE,
                                                      text |-> ProcessingText]]
                /\ runs' = Append(runs, run)
                /\ UNCHANGED <<objs, toasts, showEvents, hideEvents, clearedAt>>
           ELSE FinishRun(r, run,
                          show(Cur, defaultMaxToasts, NoId, <<feedbackDuration>>,
                               FormErrorMessage, ErrorActions),
                          L, FALSE)
    /\ UNCHANGED <<now, hovering, gestures, visited, themeVars, netVars, retryVars, pageVars>>

\* handleFormSubmission(form) after its await, for run t.o: show the
\* success toast, reset the form, then the finally block; timers that are
\* due together run in the order they were set
SubmitResume(t) ==
    /\ t \in timers
    /\ t.kind = "submit"
    /\ t.at <= now
    /\ \A u \in timers : (u.kind = "submit" /\ u.at <= now) => u.o >= t.o
    /\ FinishRun(t.o, runs[t.o],
                 show([Cur EXCEPT !.timers = @ \ {t}], defaultMaxToasts, NoId,
                      <<feedbackDuration>>, FormSuccessMessage, <<>>),
                 Loading, TRUE)
    /\ UNCHANGED <<now, hovering, gestures, visited, themeVars, netVars, retryVars, pageVars>>

\* a step of the event loop: a timer callback or the passing of time
FormTimerStep ==
    \/ \E t \in timers : SubmitResume(t)
    \/ \E t \in timers : OverlayFire(t)
    \/ \E t \in timers : AutoDismissFire(t)
    \/ \E t \in timers : ExitFire(t)
    \/ TickUntil(FormTime)

NextForm ==
    \/ \E f \in Forms, valid \in BOOLEAN, d \in ApiDelays : Submit(f, valid, d)
    \/ \E t \in timers : SubmitResume(t)
    \/ \E t \in timers : OverlayFire(t)
    \/ \E t \in timers : AutoDismissFire(t)
    \/ \E t \in timers : ExitFire(t)
    \/ TickUntil(FormTime)

\* the event loop runs a callback that is due and lets time pass
SpecForm == Init /\ [][NextForm]_vars /\ WF_vars(FormTimerStep)

\* ------------------------------------------------- show() with any options
\* show(options) where message may be missing and duration may be negative
ShowAny(optId, optDur, optMsg) ==
    /\ ShowWith(maxToasts, InputShows, optId, optDur, optMsg, <<>>)
    /\ UNCHANGED others

NextInputs ==
    \/ \E optId \in {NoId} \cup CallerIds, optDur \in AnyDurations, optMsg \in Messages :
          ShowAny(optId, optDur, optMsg)
    \/ \E t \in timers : AutoDismissFire(t)
    \/ \E t \in timers : ExitFire(t)
    \/ Tick
    \/ MouseEnter
    \/ MouseLeave

SpecInputs == Init /\ [][NextInputs]_vars

\* ================================================================ claims
\* exit callbacks pending for toast object o
PendingExits(tm, o) == {t \in tm : t.kind = "exit" /\ t.o = o}

\* auto-dismiss callbacks pending for toast object o
PendingAutos(tm, o) == {t \in tm : t.kind = "auto" /\ t.o = o}

\* hide() has run for o and its exit window is in progress
Exiting(o) == PendingExits(timers, o) # {}

\* o's own exit callback has run: element detached, entry deleted,
\* 'toastHide' dispatched
Removed(o) == hideEvents[o] > 0

Objs == 1..Len(objs)

\* C1: the number of entries of the toasts map never exceeds maxToasts.
C1_TrackedWithinLimit == Len(toasts) <= maxToasts

\* the entries of the Map that are not Exiting, in Map order
Surviving == SelectSeq(toasts, LAMBDA o : ~Exiting(o))

\* C2: a show() at or above the limit force-dismisses the earliest-inserted
\* entry that is not already Exiting: the toast that gets an exit callback
\* in that step is the first surviving entry.
C2_EvictsOldestSurviving ==
    [][(showEvents' = showEvents + 1 /\ Len(toasts) >= maxToasts /\ Surviving # <<>>)
          => \A o \in Objs :
                Cardinality(PendingExits(timers', o)) > Cardinality(PendingExits(timers, o))
                   => o = Surviving[1]]_vars

\* 'toastHide' events dispatched or committed to (one per exit callback) for o
Removals(tm, he, o) == he[o] + Cardinality(PendingExits(tm, o))

\* C3: a second hide(id) that arrives within the exit window of the first
\* produces no further 'toastHide' event for that toast.
C3_SecondDismissAddsNoRemoval ==
    [][\A id \in KnownIds :
          LET o == MapGet(toasts, objs, id)
          IN  (Dismiss(id) /\ o # 0 /\ Exiting(o))
                 => Removals(timers', hideEvents', o) = Removals(timers, hideEvents, o)]_vars

RECURSIVE SumSeq(_)
SumSeq(q) == IF q = <<>> THEN 0 ELSE Head(q) + SumSeq(Tail(q))

\* C4: for every toast at most one exit callback is pending and at most one
\* 'toastHide' is dispatched, so 'toastHide' events never outnumber
\* 'toastShow' events.
C4_RemovalRunsOnce ==
    /\ \A o \in Objs : Cardinality(PendingExits(timers, o)) <= 1
    /\ \A o \in Objs : hideEvents[o] <= 1
    /\ SumSeq(hideEvents) <= showEvents

\* C5: time spent paused is not counted against the auto-dismiss timer: the
\* pending timer of a toast that was never dismissed fires duration after
\* its start plus the time it spent paused.
C5_PausedTimeNotCounted ==
    \A t \in timers :
        (t.kind = "auto" /\ ~Exiting(t.o) /\ ~Removed(t.o))
           => t.at = objs[t.o].startTime + objs[t.o].duration + objs[t.o].pausedFor

\* C6: after mouseleave every entry with duration > 0 that was paused has a
\* pending timer again or has been dismissed.
C6_ResumeLeavesNoneStranded ==
    [][MouseLeave
          => \A i \in 1..Len(toasts) :
                LET o == toasts[i]
                IN  (objs[o].paused /\ objs[o].duration > 0)
                       => \/ PendingAutos(timers', o) # {}
                          \/ PendingExits(timers', o) # {}]_vars

\* C7: no timer callback dismisses or untracks a toast whose duration is 0:
\* an auto-dismiss callback never reaches one through hide(), and an exit
\* callback deletes the entry of one only if hide() ran for that toast.
C7_PersistentNeverTimedOut ==
    [][\A t \in timers :
          LET o == MapGet(toasts, objs, objs[t.o].id)
          IN  /\ AutoDismissFire(t) => (o = 0 \/ objs[o].duration # 0)
              /\ ExitFire(t) => (o = 0 \/ objs[o].duration # 0 \/ Exiting(o))]_vars

\* C8: once Exiting, a toast is not marked paused and gets no new
\* auto-dismiss timer.
C8_ExitingIsTerminal ==
    [][\A o \in Objs :
          Exiting(o)
             => /\ objs'[o].paused => objs[o].paused
                /\ PendingAutos(timers', o) \subseteq PendingAutos(timers, o)]_vars

\* C9: a removed toast has no pending timer of any kind.
C9_RemovedHasNoTimer ==
    \A o \in Objs : Removed(o) => \A t \in timers : t.o # o

\* C10: a timer callback created for one toast never dismisses or untracks
\* another toast that was shown later under the same id.
C10_NoStaleTimerActs ==
    [][\A t \in timers :
          LET o == MapGet(toasts, objs, objs[t.o].id)
          IN  (AutoDismissFire(t) \/ ExitFire(t)) => (o = 0 \/ o = t.o)]_vars

\* o is a value of the toasts map ts
TrackedIn(ts, o) == \E i \in 1..Len(ts) : ts[i] = o

\* C11: a toast object leaves the toasts map only in the step that runs an
\* exit callback hide() scheduled for that same object, at the moment that
\* callback is due (animationDuration after the hide)
C11_LeavesOnlyAfterOwnDismiss ==
    [][\A o \in Objs :
          (TrackedIn(toasts, o) /\ ~TrackedIn(toasts', o))
             => \E t \in PendingExits(timers, o) : t \notin timers' /\ t.at = now]_vars

\* getToasts(): Array.from(this.toasts.values())
getToasts == [i \in 1..Len(toasts) |-> objs[toasts[i]]]

\* C15: getToasts() lists the tracked toasts in the order of their show()
\* calls, also when a show() reuses the id of a tracked toast
C15_ListInEnqueueOrder ==
    \A i, j \in 1..Len(getToasts) :
        i < j => getToasts[i].startTime <= getToasts[j].startTime /\ toasts[i] < toasts[j]

\* C16: every toast whose element is in the container is the toast the map
\* holds under its id, so no two displayed toasts share an id
C16_DisplayedIsTracked ==
    /\ \A o \in Objs : objs[o].inDom => MapGet(toasts, objs, objs[o].id) = o
    /\ \A o, p \in Objs : (objs[o].inDom /\ objs[p].inDom /\ objs[o].id = objs[p].id) => o = p

\* the show() call after the first defaultMaxToasts ones
Sixth == defaultMaxToasts + 1

\* the first Sixth show() calls are done and the last of them came while every
\* earlier toast was still within its lifetime (no auto-dismiss timer was due)
SixShownAlive ==
    /\ Len(objs) = Sixth
    /\ \A o \in 1..defaultMaxToasts :
          objs[o].duration = 0 \/ objs[Sixth].startTime < objs[o].startTime + objs[o].duration

\* C12: with maxToasts = 5, six show() calls in a row dispatch six 'toastShow'
\* events and hide exactly the first toast; when its exit window is over there
\* has been exactly one 'toastHide', for the first toast, and getToasts()
\* returns the five newest toasts in insertion order
C12_SixthEvictsFirst ==
    SixShownAlive =>
       /\ showEvents = Sixth
       /\ now < objs[Sixth].startTime + animationDuration
             => /\ \A o \in Objs : Exiting(o) <=> o = 1
                /\ SumSeq(hideEvents) = 0
       /\ (now = objs[Sixth].startTime + animationDuration /\ ~Exiting(1))
             => /\ hideEvents = [o \in 1..Sixth |-> IF o = 1 THEN 1 ELSE 0]
                /\ toasts = [i \in 1..defaultMaxToasts |-> i + 1]
                /\ \A i \in 1..Len(getToasts) : getToasts[i].id = generateId(i + 1)

C12_Witness ==
    /\ SixShownAlive
    /\ objs[1].duration > 0
    /\ now = objs[Sixth].startTime + animationDuration
    /\ ~Exiting(1)
    /\ hideEvents[1] = 1

\* C13: when the page has made no hover, click, hide() or clearAll() at all,
\* the auto-dismiss timer of a toast that is not already exiting runs exactly
\* duration after the toast's show() and starts that toast's exit window
C13_UndisturbedAutoDismissed ==
    [][\A t \in timers :
          (gestures = 0 /\ AutoDismissFire(t) /\ ~Exiting(t.o) /\ ~Removed(t.o))
             => /\ t.at = objs[t.o].startTime + objs[t.o].duration
                /\ PendingExits(timers', t.o) # {}]_vars

\* the paused flag of o was set at the present instant: no time has passed
\* with the flag set
PausedJustNow(o) == objs[o].paused /\ objs[o].pausedFor = 0

\* C14 (as stated): a mouseleave that follows the mouseenter with no time
\* between them restarts the timer of a paused toast with the whole duration
C14_ZeroPauseFullDuration ==
    [][MouseLeave =>
          \A i \in 1..Len(toasts) :
             LET o == toasts[i]
             IN  (PausedJustNow(o) /\ objs[o].duration > 0 /\ ~Exiting(o))
                    => \E t \in PendingAutos(timers', o) :
                          t.h = objs'[o].timer /\ t.at = now + objs[o].duration]_vars

\* C14 (amended): a mouseleave that follows the mouseenter with no time
\* between them, before the toast's deadline, restarts the timer with the
\* time that remains, duration - (now - startTime): the deadline stays at
\* startTime + duration
C14_ZeroPauseKeepsDeadline ==
    [][MouseLeave =>
          \A i \in 1..Len(toasts) :
             LET o == toasts[i]
             IN  (PausedJustNow(o) /\ objs[o].duration > 0
                    /\ now < objs[o].startTime + objs[o].duration)
                    => /\ ~objs'[o].paused
                       /\ \E t \in PendingAutos(timers', o) :
                             /\ t.h = objs'[o].timer
                             /\ t.at - now = objs[o].duration - (now - objs[o].startTime)
                             /\ t.at = objs[o].startTime + objs[o].duration]_vars

\* a toast whose timer was set again by mouseleave after a pause of no
\* length, some time after its show(), and keeps its deadline
C14_Witness ==
    \E o \in Objs :
        /\ objs[o].timer[3] = 2
        /\ ~objs[o].paused
        /\ objs[o].pausedFor = 0
        /\ objs[o].startTime < now
        /\ \E t \in PendingAutos(timers, o) :
              t.h = objs[o].timer /\ t.at = objs[o].startTime + objs[o].duration

\* C17: when clearAll() was called, no show() followed, one exit window has
\* passed and every callback due by then has run, the map is empty and no
\* auto-dismiss timer is pending
C17_ClearAllEmpties ==
    (/\ clearedAt # <<>>
     /\ now = clearedAt[1] + animationDuration
     /\ \A t \in timers : t.at > now)
       => /\ toasts = <<>>
          /\ \A t \in timers : t.kind # "auto"

\* C18: hide(id) with an id the map does not hold (never shown, or already
\* removed) changes nothing: same toast objects, same map, same pending
\* timers, no event
C18_UnknownIdNoOp ==
    [][\A id \in KnownIds :
          (Dismiss(id) /\ MapGet(toasts, objs, id) = 0)
             => UNCHANGED <<objs, toasts, timers, showEvents, hideEvents, now>>]_vars

\* hide('network-error') was called while only other toasts were tracked:
\* one call by the page so far, no hover, no clearAll(), and every toast is
\* still tracked with its timer and no exit window started
C18_Witness ==
    /\ gestures = 1
    /\ ~hovering
    /\ clearedAt = <<>>
    /\ toasts # <<>>
    /\ MapGet(toasts, objs, NetworkErrorId) = 0
    /\ \A o \in Objs : TrackedIn(toasts, o) /\ ~Exiting(o) /\ ~objs[o].paused
    /\ \E o \in Objs : PendingAutos(timers, o) # {}

\* C19: a show() whose options have no message is rejected at the call: the
\* map, the pending timers and the 'toastShow' count stay as they were
C19_MissingMessageRejected ==
    [][(\E optId \in {NoId} \cup CallerIds, optDur \in AnyDurations :
           ShowAny(optId, optDur, Undefined))
          => UNCHANGED <<toasts, timers, showEvents>>]_vars

\* C20: every tracked toast has a duration >= 0, a negative options.duration
\* having been stored as 0; such a toast never has an auto-dismiss timer
C20_DurationSanitized ==
    /\ \A i \in 1..Len(getToasts) : getToasts[i].duration >= 0
    /\ \A o \in Objs : objs[o].duration <= 0 => PendingAutos(timers, o) = {}

\* C21: a click on the i-th action button runs the i-th action's function and
\* then starts the exit of the toast unless action.dismiss is false, whatever
\* the function does; with dismiss false the toast, the map and the timers
\* stay as they were
C21_ActionThenDismiss ==
    [][\A o \in Objs : \A i \in 1..Len(objs[o].actions) :
          ActionClick(o, i) =>
             LET action == objs[o].actions[i]
             IN  /\ action.effect = "mark" => visited'
                 /\ (action.dismiss # <<FALSE>> /\ MapGet(toasts, objs, objs[o].id) = o)
                       => Cardinality(PendingExits(timers', o)) = Cardinality(PendingExits(timers, o)) + 1
                 /\ action.dismiss = <<FALSE>> => UNCHANGED <<objs, toasts, timers>>]_vars

\* C22: every toggleTheme() makes the application's themeChanged listener
\* show exactly one notification, whose message names the new theme; a theme
\* change that is no toggle (applyTheme, system colour scheme) shows none
C22_ToggleAnnouncedOnce ==
    [][/\ ToggleTheme =>
             /\ showEvents' = showEvents + 1
             /\ Len(objs') = Len(objs) + 1
             /\ objs'[Len(objs')].message = ThemeMessage(theme')
             /\ objs'[Len(objs')].duration = announceDuration
             /\ TrackedIn(toasts', Len(objs'))
       /\ (SystemChange \/ \E th \in {"light", "dark"} : ApplyTheme(th))
             => (showEvents' = showEvents /\ objs' = objs /\ toasts' = toasts)]_vars

\* the theme was toggled twice: two notifications, one per new theme
C22_Witness ==
    /\ toggled
    /\ showEvents = 2
    /\ Len(toasts) = 2
    /\ objs[1].message # objs[2].message
    /\ objs[2].message = ThemeMessage(theme)

\* C28: this.theme, the data-theme attribute and the stored item
\* 'clipboard-theme' are equal, and once toggleTheme() has run the theme is
\* 'light' or 'dark'
C28_ThemeConsistent ==
    /\ theme = dataTheme
    /\ theme = storedTheme
    /\ toggled => theme \in {"light", "dark"}

\* a page loaded with the foreign stored value 'auto', toggled since, after a
\* system colour-scheme change
C28_Witness ==
    /\ storedAtLoad = "auto"
    /\ toggled
    /\ systemDark
    /\ theme = "dark"
    /\ storedTheme = "dark"

\* C29: on a page loaded with no stored theme and never toggled, a change of
\* the system colour scheme makes the applied theme follow the system; once
\* toggled, the change is ignored
C29_FollowsSystemUntilToggled ==
    [][SystemChange =>
          /\ (storedAtLoad = Null /\ ~toggled)
                => (theme' = getPreferredTheme(systemDark') /\ dataTheme' = theme')
          /\ toggled => (theme' = theme /\ dataTheme' = dataTheme)]_vars

\* C23: no auto-dismiss callback runs while the pointer is over the
\* container, also for a toast shown after the pointer entered
C23_NoAutoDismissWhileHovering ==
    [][\A t \in timers : AutoDismissFire(t) => ~hovering]_vars

\* C24: a toast object has at most one pending auto-dismiss timer, the one
\* its timer field names, and none while its paused flag is set
C24_AtMostOneAutoTimer ==
    \A o \in Objs :
        /\ Cardinality(PendingAutos(timers, o)) <= 1
        /\ \A t \in PendingAutos(timers, o) : t.h = objs[o].timer
        /\ objs[o].paused => PendingAutos(timers, o) = {}

\* a toast whose timer was cleared by mouseenter and set again by mouseleave
\* (its second handle) has one pending timer once the pointer has left
C24_Witness ==
    \E o \in Objs :
        /\ objs[o].timer[3] = 2
        /\ ~objs[o].paused
        /\ ~hovering
        /\ Cardinality(PendingAutos(timers, o)) = 1

\* C25: when the last network event was 'online' and the exit window after
\* it has elapsed, no toast with the id 'network-error' is in the document
\* or in the toasts map
C25_NoNetworkErrorAfterOnline ==
    (/\ netLast = "online"
     /\ now >= onlineAt + animationDuration
     /\ \A t \in timers : t.at > now)
    => \A o \in Objs :
          objs[o].id = NetworkErrorId => ~objs[o].inDom /\ ~TrackedIn(toasts, o)

\* C27: whenever isLoading(key) is true, the loading element of that key is
\* attached to the document and has the class 'active'
C27_LoadingHasActiveOverlay ==
    \A key \in LoadingKeys :
        isLoading(key) => overlays[key].attached /\ overlays[key].active

\* the max-retries toasts shown so far
MaxRetriesToasts == {o \in Objs : objs[o].message = MaxRetriesMessage}

\* C26: for one error the 'retryAction' events dispatched carry the attempts
\* 1, 2, 3 in that order and there are never more than maxRetries of them,
\* also when calls overlap during the delay; a call made once maxRetries
\* attempts are counted starts no delay and dispatches nothing, and shows the
\* persistent max-retries toast
C26_RetriesBounded ==
    /\ [](/\ Len(dispatched) <= maxRetries
          /\ \A i \in 1..Len(dispatched) : dispatched[i] = i
          /\ \A t \in timers : t.kind = "retry" => t.o \in 1..maxRetries
          /\ \A o \in MaxRetriesToasts : objs[o].duration = 0)
    /\ [][/\ retryAttempts' <= maxRetries
          /\ (retryAttempts = maxRetries /\ {t \in timers' : t.kind = "retry"}
                                             = {t \in timers : t.kind = "retry"}
              /\ dispatched' = dispatched /\ Len(objs') > Len(objs))
             => /\ objs'[Len(objs')].message = MaxRetriesMessage
                /\ objs'[Len(objs')].inDom
                /\ TrackedIn(toasts', Len(objs'))
                /\ PendingAutos(timers', Len(objs')) = {}]_vars

\* three overlapping calls made at time 0 have dispatched attempts 1, 2, 3
\* when their delays ran out, and a fourth call has shown the max-retries
\* toast
C26_Witness ==
    /\ dispatched = <<1, 2, 3>>
    /\ now = retryDelay
    /\ MaxRetriesToasts # {}

\* C30: over the loads that share one localStorage, the welcome toast is
\* shown on at most one of them
C30_WelcomeOnOneLoad == Cardinality(welcomeLoads) <= 1

\* the r-th handleFormSubmission run has started, has run its finally block
RunStarted(r) == Len(runs) >= r
RunDone(r) == Len(runs) >= r /\ runs[r].done

\* C31: every handleFormSubmission run terminates; when it has, the
\* 'form-submit' loading state is cleared and the form's submit button is
\* enabled with its original text; the success toast and the form reset
\* happen exactly for valid input, and handleError is called exactly for
\* invalid input
C31_SubmissionCompletes ==
    /\ [](\A r \in 1..Len(runs) :
            runs[r].done =>
               /\ ~runs[r].endLoading
               /\ ~runs[r].endDisabled
               /\ runs[r].endText = SubmitText
               /\ runs[r].success = runs[r].valid
               /\ runs[r].handled = ~runs[r].valid)
    /\ \A r \in 1..MaxSubmits : RunStarted(r) ~> RunDone(r)
====
